---------------------------- MODULE Spec2Model ----------------------------
(***************************************************************************)
(* Model of app.js: an Express application with an access-log middleware,  *)
(* a zod validation schema and three routes (GET /, POST /, GET /contatos) *)
(* backed by the Contato model.                                            *)
(*                                                                         *)
(* A request is handled in one synchronous step (the middleware, next(),   *)
(* and the route handler up to its first await).  The asynchronous parts   *)
(* settle later in any order: fs.appendFile's callback, Contato.create,    *)
(* Contato.findAll.  Text is a sequence of one-character strings; a        *)
(* response body is the sequence of the pieces Array.join concatenates.    *)
(***************************************************************************)
EXTENDS Naturals, Sequences, FiniteSets

VARIABLES
    reqs,       \* requests received, in arrival order: [method, url, body]
    pc,         \* per request: where its route handler stands
    db,         \* per request: state of its Contato.create / findAll call
    responses,  \* per request: the responses written to res, in order
    store,      \* the rows of the contacts table, in insertion order
    createdBy,  \* per row of store: the request whose create inserted it
    appendq,    \* per request: state of its fs.appendFile call
    logFile,    \* the lines of access.log, in the order they were written
    stderr,     \* what console.error printed
    alive       \* the node process is running

vars == <<reqs, pc, db, responses, store, createdBy, appendq, logFile, stderr, alive>>

-----------------------------------------------------------------------------
(* Bounds of the model *)

\* requests received in one behaviour of Spec
MaxRequests == 3
\* requests received in one behaviour of SpecWide
MaxWideRequests == 1

-----------------------------------------------------------------------------
(* Values of a body field *)

Str(s) == [kind |-> "string", chars |-> s]
Undefined == [kind |-> "undefined", chars |-> <<>>]
Number == [kind |-> "number", chars |-> <<>>]

Digit == {"0", "1", "2", "3", "4", "5", "6", "7", "8", "9"}
Letter == {"a", "b", "c", "d", "e", "f", "g", "h", "i", "j", "k", "l", "m",
           "n", "o", "p", "q", "r", "s", "t", "u", "v", "w", "x", "y", "z",
           "A", "B", "C", "D", "E", "F", "G", "H", "I", "J", "K", "L", "M",
           "N", "O", "P", "Q", "R", "S", "T", "U", "V", "W", "X", "Y", "Z"}
AlphaNum == Letter \cup Digit

-----------------------------------------------------------------------------
(* contatoSchema *)

\* .min(3, ...)
MinNome == 3

MsgNomeObrigatorio == "Campo nome é obrigatório"
MsgNomeMin == "O nome deve ter no mínimo 03 caracteres."
MsgEmailObrigatorio == "Campo e-mail é obrigatório."
MsgEmailValido == "Deve ser um e-mail válido."
MsgTelefoneValido == "Deve enviar um telefone válido"
\* z.string() without a message: zod's own wording for a wrong type
MsgRequired == "Required"
MsgExpectedString == "Expected string, received number"

\* mutant: the pattern without its $ anchor
TelefoneRegexNoEnd(s) ==
    /\ Len(s) >= 15
    /\ s[1] = "("
    /\ s[2] \in Digit /\ s[3] \in Digit
    /\ s[4] = ")"
    /\ s[5] = " "
    /\ \A i \in 6..10 : s[i] \in Digit
    /\ s[11] = "-"
    /\ \A i \in 12..15 : s[i] \in Digit

\* /^\(\d{2}\) \d{5}-\d{4}$/
TelefoneRegex(s) ==
    /\ Len(s) = 15
    /\ s[1] = "("
    /\ s[2] \in Digit /\ s[3] \in Digit
    /\ s[4] = ")"
    /\ s[5] = " "
    /\ \A i \in 6..10 : s[i] \in Digit
    /\ s[11] = "-"
    /\ \A i \in 12..15 : s[i] \in Digit

\* the domain of .email():  ([A-Z0-9][A-Z0-9\-]*\.)+[A-Z]{2,}$   (flag i)
EmailDomain(d) ==
    LET n == Len(d)
        dots == {i \in 1..n : d[i] = "."}
    IN  /\ dots # {}
        /\ LET last == CHOOSE i \in dots : \A j \in dots : j <= i
           IN  /\ n - last >= 2
               /\ \A i \in (last + 1)..n : d[i] \in Letter
               /\ \A p \in dots :
                    LET prev == {q \in dots : q < p}
                        from == IF prev = {} THEN 1
                                ELSE 1 + CHOOSE q \in prev : \A j \in prev : j <= q
                    IN  /\ from <= p - 1
                        /\ d[from] \in AlphaNum
                        /\ \A i \in (from + 1)..(p - 1) : d[i] \in AlphaNum \cup {"-"}

\* .email():  /^(?!\.)(?!.*\.\.)([A-Z0-9_'+\-\.]*)[A-Z0-9_+-]@<domain>$/i
EmailRegex(s) ==
    LET n == Len(s)
        ats == {i \in 1..n : s[i] = "@"}
    IN  /\ Cardinality(ats) = 1
        /\ LET at == CHOOSE i \in ats : TRUE
           IN  /\ at >= 2
               /\ s[1] # "."
               /\ \A i \in 1..(n - 1) : ~(s[i] = "." /\ s[i + 1] = ".")
               /\ \A i \in 1..(at - 2) : s[i] \in AlphaNum \cup {"_", "'", "+", "-", "."}
               /\ s[at - 1] \in AlphaNum \cup {"_", "+", "-"}
               /\ EmailDomain(SubSeq(s, at + 1, n))

\* nome: z.string({ message }).min(3, { message })
NomeIssues(v) ==
    IF v.kind # "string" THEN <<MsgNomeObrigatorio>>
    ELSE IF Len(v.chars) < MinNome THEN <<MsgNomeMin>>
    ELSE <<>>

\* email: z.string({ message }).email({ message })
EmailIssues(v) ==
    IF v.kind # "string" THEN <<MsgEmailObrigatorio>>
    ELSE IF ~EmailRegex(v.chars) THEN <<MsgEmailValido>>
    ELSE <<>>

\* telefone: z.string().regex(..., { message })
TelefoneIssues(v) ==
    IF v.kind = "undefined" THEN <<MsgRequired>>
    ELSE IF v.kind # "string" THEN <<MsgExpectedString>>
    ELSE IF ~TelefoneRegex(v.chars) THEN <<MsgTelefoneValido>>
    ELSE <<>>

\* mutant: a schema that declares no telefone rule
safeParseNoTelefone(contato) ==
    LET issues == NomeIssues(contato.nome) \o EmailIssues(contato.email)
    IN  [success |-> issues = <<>>, issues |-> issues]

\* mutant: the result reports success as soon as one field passes
safeParsePartial(contato) ==
    LET issues == NomeIssues(contato.nome) \o EmailIssues(contato.email)
                    \o TelefoneIssues(contato.telefone)
    IN  [success |-> Len(issues) < 3, issues |-> issues]

\* contatoSchema.safeParse(contato): the keys are parsed in declaration order
safeParse(contato) ==
    LET issues == NomeIssues(contato.nome) \o EmailIssues(contato.email)
                    \o TelefoneIssues(contato.telefone)
    IN  [success |-> issues = <<>>, issues |-> issues]

\* mutant: join() called without its argument separates with ","
RECURSIVE joinDefault(_, _)
joinDefault(a, sep) ==
    IF Len(a) = 0 THEN <<>>
    ELSE IF Len(a) = 1 THEN <<a[1]>>
    ELSE <<a[1], ",">> \o joinDefault(Tail(a), sep)

\* Array.prototype.join: the elements with sep between consecutive ones
RECURSIVE join(_, _)
join(a, sep) ==
    IF Len(a) = 0 THEN <<>>
    ELSE IF Len(a) = 1 THEN <<a[1]>>
    ELSE <<a[1], sep>> \o join(Tail(a), sep)

-----------------------------------------------------------------------------
(* Responses *)

\* res.status(status).send(text)
Send(status, text) ==
    [status |-> status, kind |-> "send", body |-> text, view |-> "", contatos |-> <<>>]

\* res.render(view, { contatos })
Render(view, contatos) ==
    [status |-> 200, kind |-> "render", body |-> <<>>, view |-> view, contatos |-> contatos]

\* no route matches: Express answers 404 itself
NotFound ==
    [status |-> 404, kind |-> "default", body |-> <<>>, view |-> "", contatos |-> <<>>]

\* Contato.create({ nome, telefone, email })
Contact(contato) ==
    [nome |-> contato.nome, telefone |-> contato.telefone, email |-> contato.email]

\* mutant: the line leaves the path out
LogLineNoPath(r, req) == [ts |-> r, method |-> req.method, url |-> ""]

\* the line the middleware builds; the timestamp is the arrival instant
LogLine(r, req) == [ts |-> r, method |-> req.method, url |-> req.originalUrl]

-----------------------------------------------------------------------------
(* Route handlers, up to their first await *)

\* app.get("/")
GetRoot == [pc |-> "done", db |-> "none", res |-> <<Render("index", <<>>)>>]

\* mutant: Contato.create is not awaited, the success text is sent at once
PostRootNoAwait(contato) ==
    LET resultado == safeParse(contato)
    IN  IF ~resultado.success
        THEN [pc |-> "done", db |-> "none",
              res |-> <<Send(400, join(resultado.issues, "; "))>>]
        ELSE [pc |-> "awaitCreate", db |-> "pending",
              res |-> <<Send(200, <<"Contato salvo com sucesso">>)>>]

\* app.post("/")
PostRoot(contato) ==
    LET resultado == safeParse(contato)
    IN  IF ~resultado.success
        THEN [pc |-> "done", db |-> "none",
              res |-> <<Send(400, join(resultado.issues, "; "))>>]
        ELSE [pc |-> "awaitCreate", db |-> "pending", res |-> <<>>]

\* app.get("/contatos")
GetContatos == [pc |-> "awaitFindAll", db |-> "pending", res |-> <<>>]

IsPostRoot(req) == req.method = "POST" /\ req.originalUrl = "/"
IsGetRoot(req) == req.method = "GET" /\ req.originalUrl = "/"
IsGetContatos(req) == req.method = "GET" /\ req.originalUrl = "/contatos"

\* the router: the first route whose method and path match
Route(req) ==
    IF IsGetRoot(req) THEN GetRoot
    ELSE IF IsPostRoot(req) THEN PostRoot(req.body)
    ELSE IF IsGetContatos(req) THEN GetContatos
    ELSE [pc |-> "done", db |-> "none", res |-> <<NotFound>>]

-----------------------------------------------------------------------------
(* Inputs *)

NoBody == [nome |-> Undefined, email |-> Undefined, telefone |-> Undefined]

NomeAna == Str(<<"A", "n", "a">>)
NomeAl == Str(<<"A", "l">>)
EmailOk == Str(<<"a", "@", "b", ".", "c", "o">>)
EmailNoTld == Str(<<"a", "@", "b">>)
TelOk == Str(<<"(", "1", "1", ")", " ", "9", "1", "2", "3", "4", "-", "5", "6", "7", "8">>)
TelNoSpace == Str(<<"(", "1", "1", ")", "9", "1", "2", "3", "4", "-", "5", "6", "7", "8">>)

\* the bodies of Spec: a valid one and one violating every rule
Bodies ==
    { [nome |-> NomeAna, email |-> EmailOk, telefone |-> TelOk],
      [nome |-> NomeAl, email |-> EmailNoTld, telefone |-> TelNoSpace] }

GetRootRequest == [method |-> "GET", originalUrl |-> "/", body |-> NoBody]
GetContatosRequest == [method |-> "GET", originalUrl |-> "/contatos", body |-> NoBody]
UnknownPathRequest == [method |-> "GET", originalUrl |-> "/x", body |-> NoBody]

Requests ==
    {GetRootRequest, GetContatosRequest}
        \cup { [method |-> "POST", originalUrl |-> "/", body |-> b] : b \in Bodies }

\* the bodies of SpecWide: every combination of these field values
WideNome == { Undefined, Number, NomeAl, NomeAna }
WideEmail == { Undefined, Str(<<>>), EmailNoTld, EmailOk,
               Str(<<"a", ".", ".", "b", "@", "c", ".", "d", "e">>) }
WideTelefone == { Undefined, Number, TelOk, TelNoSpace,
                  Str(TelOk.chars \o <<"9">>),
                  Str(<<"(", "1", "a", ")", " ", "9", "1", "2", "3", "4", "-", "5", "6", "7", "8">>) }

WideRequests ==
    {GetRootRequest, GetContatosRequest, UnknownPathRequest} \cup
    { [method |-> "POST", originalUrl |-> "/",
       body |-> [nome |-> n, email |-> e, telefone |-> t]] :
         n \in WideNome, e \in WideEmail, t \in WideTelefone }

-----------------------------------------------------------------------------
(* The state machine *)

Init ==
    /\ reqs = <<>>
    /\ pc = <<>>
    /\ db = <<>>
    /\ responses = <<>>
    /\ store = <<>>
    /\ createdBy = <<>>
    /\ appendq = <<>>
    /\ logFile = <<>>
    /\ stderr = {}
    /\ alive = TRUE

\* A request arrives: the access-log middleware starts the append and calls
\* next() without waiting for it; the route handler runs to its first await.
Receive(req) ==
    /\ alive
    /\ LET h == Route(req)
       IN  /\ reqs' = Append(reqs, req)
           /\ appendq' = Append(appendq, "pending")
           /\ pc' = Append(pc, h.pc)
           /\ db' = Append(db, h.db)
           /\ responses' = Append(responses, h.res)
    /\ UNCHANGED <<store, createdBy, logFile, stderr, alive>>

\* mutant: the callback answers the client with a 500 when the append fails
AppendFileDoneSurfaced(r, ok) ==
    /\ alive
    /\ appendq[r] = "pending"
    /\ IF ok
       THEN /\ appendq' = [appendq EXCEPT ![r] = "ok"]
            /\ logFile' = Append(logFile, LogLine(r, reqs[r]))
            /\ UNCHANGED <<stderr, responses>>
       ELSE /\ appendq' = [appendq EXCEPT ![r] = "failed"]
            /\ stderr' = stderr \cup {[msg |-> "Erro ao escrever no arquivo de log:", req |-> r]}
            /\ responses' = [responses EXCEPT ![r] = Append(@, Send(500, <<"Erro">>))]
            /\ UNCHANGED logFile
    /\ UNCHANGED <<reqs, pc, db, store, createdBy, alive>>

\* fs.appendFile's callback: the line is in the file, or err is printed
AppendFileDone(r, ok) ==
    /\ alive
    /\ appendq[r] = "pending"
    /\ IF ok
       THEN /\ appendq' = [appendq EXCEPT ![r] = "ok"]
            /\ logFile' = Append(logFile, LogLine(r, reqs[r]))
            /\ UNCHANGED stderr
       ELSE /\ appendq' = [appendq EXCEPT ![r] = "failed"]
            /\ stderr' = stderr \cup {[msg |-> "Erro ao escrever no arquivo de log:", req |-> r]}
            /\ UNCHANGED logFile
    /\ UNCHANGED <<reqs, pc, db, responses, store, createdBy, alive>>

\* mutant: the await sits in a try/catch that answers 500
CreateSettlesCaught(r, ok) ==
    /\ alive
    /\ pc[r] = "awaitCreate"
    /\ IF ok
       THEN /\ store' = Append(store, Contact(reqs[r].body))
            /\ createdBy' = Append(createdBy, r)
            /\ db' = [db EXCEPT ![r] = "ok"]
            /\ responses' = [responses EXCEPT
                   ![r] = Append(@, Send(200, <<"Contato salvo com sucesso">>))]
       ELSE /\ db' = [db EXCEPT ![r] = "failed"]
            /\ responses' = [responses EXCEPT
                   ![r] = Append(@, Send(500, <<"Erro ao salvar contato.">>))]
            /\ UNCHANGED <<store, createdBy>>
    /\ pc' = [pc EXCEPT ![r] = "done"]
    /\ UNCHANGED <<reqs, appendq, logFile, stderr, alive>>

\* await Contato.create(...) settles: the row is inserted and the handler
\* sends the success text, or the rejection leaves the async handler
CreateSettles(r, ok) ==
    /\ alive
    /\ pc[r] = "awaitCreate"
    /\ IF ok
       THEN /\ store' = Append(store, Contact(reqs[r].body))
            /\ createdBy' = Append(createdBy, r)
            /\ db' = [db EXCEPT ![r] = "ok"]
            /\ responses' = [responses EXCEPT
                   ![r] = Append(@, Send(200, <<"Contato salvo com sucesso">>))]
            /\ pc' = [pc EXCEPT ![r] = "done"]
       ELSE /\ db' = [db EXCEPT ![r] = "failed"]
            /\ pc' = [pc EXCEPT ![r] = "rejected"]
            /\ UNCHANGED <<store, createdBy, responses>>
    /\ UNCHANGED <<reqs, appendq, logFile, stderr, alive>>

\* mutant: the query is findOne, the page gets the first row only
FindAllSettlesFirstRow(r, ok) ==
    /\ alive
    /\ pc[r] = "awaitFindAll"
    /\ IF ok
       THEN /\ db' = [db EXCEPT ![r] = "ok"]
            /\ responses' = [responses EXCEPT
                   ![r] = Append(@, Render("contatos",
                                           IF store = <<>> THEN <<>> ELSE <<store[1]>>))]
            /\ UNCHANGED stderr
       ELSE /\ db' = [db EXCEPT ![r] = "failed"]
            /\ stderr' = stderr \cup {[msg |-> "Erro ao buscar contatos:", req |-> r]}
            /\ responses' = [responses EXCEPT
                   ![r] = Append(@, Send(500, <<"Erro ao buscar contatos.">>))]
    /\ pc' = [pc EXCEPT ![r] = "done"]
    /\ UNCHANGED <<reqs, store, createdBy, appendq, logFile, alive>>

\* mutant: no try/catch, the rejection leaves the async handler
FindAllSettlesNoCatch(r, ok) ==
    /\ alive
    /\ pc[r] = "awaitFindAll"
    /\ IF ok
       THEN /\ db' = [db EXCEPT ![r] = "ok"]
            /\ responses' = [responses EXCEPT ![r] = Append(@, Render("contatos", store))]
            /\ pc' = [pc EXCEPT ![r] = "done"]
       ELSE /\ db' = [db EXCEPT ![r] = "failed"]
            /\ pc' = [pc EXCEPT ![r] = "rejected"]
            /\ UNCHANGED responses
    /\ UNCHANGED <<reqs, store, createdBy, appendq, logFile, stderr, alive>>

\* await Contato.findAll() settles: the page is rendered with the rows, or
\* the catch block prints the error and sends the 500
FindAllSettles(r, ok) ==
    /\ alive
    /\ pc[r] = "awaitFindAll"
    /\ IF ok
       THEN /\ db' = [db EXCEPT ![r] = "ok"]
            /\ responses' = [responses EXCEPT ![r] = Append(@, Render("contatos", store))]
            /\ UNCHANGED stderr
       ELSE /\ db' = [db EXCEPT ![r] = "failed"]
            /\ stderr' = stderr \cup {[msg |-> "Erro ao buscar contatos:", req |-> r]}
            /\ responses' = [responses EXCEPT
                   ![r] = Append(@, Send(500, <<"Erro ao buscar contatos.">>))]
    /\ pc' = [pc EXCEPT ![r] = "done"]
    /\ UNCHANGED <<reqs, store, createdBy, appendq, logFile, alive>>

\* a rejection nobody handles: node may end the process
ProcessExit ==
    /\ alive
    /\ \E r \in 1..Len(reqs) : pc[r] = "rejected"
    /\ alive' = FALSE
    /\ UNCHANGED <<reqs, pc, db, responses, store, createdBy, appendq, logFile, stderr>>

Next ==
    \/ \E req \in Requests : Len(reqs) < MaxRequests /\ Receive(req)
    \/ \E r \in 1..Len(reqs), ok \in BOOLEAN : AppendFileDone(r, ok)
    \/ \E r \in 1..Len(reqs), ok \in BOOLEAN : CreateSettles(r, ok)
    \/ \E r \in 1..Len(reqs), ok \in BOOLEAN : FindAllSettles(r, ok)
    \/ ProcessExit

Spec == Init /\ [][Next]_vars

NextWide ==
    \/ \E req \in WideRequests : Len(reqs) < MaxWideRequests /\ Receive(req)
    \/ \E r \in 1..Len(reqs), ok \in BOOLEAN : AppendFileDone(r, ok)
    \/ \E r \in 1..Len(reqs), ok \in BOOLEAN : CreateSettles(r, ok)
    \/ \E r \in 1..Len(reqs), ok \in BOOLEAN : FindAllSettles(r, ok)
    \/ ProcessExit

SpecWide == Init /\ [][NextWide]_vars

TypeOK ==
    /\ Len(pc) = Len(reqs) /\ Len(db) = Len(reqs)
    /\ Len(responses) = Len(reqs) /\ Len(appendq) = Len(reqs)
    /\ Len(createdBy) = Len(store)
    /\ \A r \in 1..Len(reqs) :
         /\ pc[r] \in {"done", "awaitCreate", "awaitFindAll", "rejected"}
         /\ db[r] \in {"none", "pending", "ok", "failed"}
         /\ appendq[r] \in {"pending", "ok", "failed"}

-----------------------------------------------------------------------------
(* Vocabulary of the properties *)

ReqIds == 1..Len(reqs)

\* the three rules of the data model, field by field
NomeValid(v) == v.kind = "string" /\ Len(v.chars) >= 3
EmailValid(v) == v.kind = "string" /\ EmailRegex(v.chars)
\* (DD) DDDDD-DDDD: 15 characters, digits wherever the punctuation is not
PhonePattern(s) ==
    /\ Len(s) = 15
    /\ \A i \in 1..15 :
         IF i = 1 THEN s[i] = "("
         ELSE IF i = 4 THEN s[i] = ")"
         ELSE IF i = 5 THEN s[i] = " "
         ELSE IF i = 11 THEN s[i] = "-"
         ELSE s[i] \in {"0", "1", "2", "3", "4", "5", "6", "7", "8", "9"}
TelefoneValid(v) == v.kind = "string" /\ PhonePattern(v.chars)
BodyValid(b) == NomeValid(b.nome) /\ EmailValid(b.email) /\ TelefoneValid(b.telefone)

FieldValid(f, b) ==
    IF f = "nome" THEN NomeValid(b.nome)
    ELSE IF f = "email" THEN EmailValid(b.email)
    ELSE TelefoneValid(b.telefone)

\* the messages a field's rules can produce
FieldMessages(f) ==
    IF f = "nome" THEN {"Campo nome é obrigatório", "O nome deve ter no mínimo 03 caracteres."}
    ELSE IF f = "email" THEN {"Campo e-mail é obrigatório.", "Deve ser um e-mail válido."}
    ELSE {"Deve enviar um telefone válido", "Required", "Expected string, received number"}

\* the violated fields of a body, in schema-declaration order
Violated(b) ==
    (IF NomeValid(b.nome) THEN <<>> ELSE <<"nome">>)
        \o (IF EmailValid(b.email) THEN <<>> ELSE <<"email">>)
        \o (IF TelefoneValid(b.telefone) THEN <<>> ELSE <<"telefone">>)

IsText(resp, status, text) ==
    resp.status = status /\ resp.kind = "send" /\ resp.body = <<text>>

Includes(resp, msg) == \E i \in 1..Len(resp.body) : resp.body[i] = msg

\* the rows of the store that request r inserted
RowsOf(r) == {i \in 1..Len(store) : createdBy[i] = r}

\* every request's handler has finished and every append has settled
Quiescent ==
    \A r \in ReqIds : appendq[r] # "pending" /\ pc[r] \in {"done", "rejected"}

-----------------------------------------------------------------------------
(* C1 *)

\* C1: a valid POST / whose create succeeded has exactly one response, 200 with
\* the text "Contato salvo com sucesso", and once a response of it exists the
\* store holds exactly one row inserted by it, carrying the submitted nome,
\* email and telefone: the 200 is never sent before the row is persisted.
C1_ValidPostPersistsThenAnswers ==
    \A r \in ReqIds :
        (IsPostRoot(reqs[r]) /\ BodyValid(reqs[r].body)) =>
            /\ db[r] = "ok" =>
                 /\ Len(responses[r]) = 1
                 /\ IsText(responses[r][1], 200, "Contato salvo com sucesso")
            /\ responses[r] # <<>> =>
                 /\ db[r] = "ok"
                 /\ Cardinality(RowsOf(r)) = 1
                 /\ \A i \in RowsOf(r) :
                      /\ store[i].nome = reqs[r].body.nome
                      /\ store[i].email = reqs[r].body.email
                      /\ store[i].telefone = reqs[r].body.telefone

C1_Witness ==
    \E r \in ReqIds :
        /\ IsPostRoot(reqs[r]) /\ BodyValid(reqs[r].body) /\ db[r] = "ok"
        /\ Len(responses[r]) = 1 /\ responses[r][1].status = 200
        /\ Cardinality(RowsOf(r)) = 1
        /\ Len(store) = 2

-----------------------------------------------------------------------------
(* C2 *)

\* C2: a POST / whose body violates at least one rule is answered 400, its
\* handler never calls the persistence layer, and no row of the store comes
\* from it, even when its other fields are valid.
C2_InvalidPostRejectedStoreUntouched ==
    \A r \in ReqIds :
        (IsPostRoot(reqs[r]) /\ ~BodyValid(reqs[r].body)) =>
            /\ Len(responses[r]) = 1
            /\ responses[r][1].status = 400
            /\ responses[r][1].kind = "send"
            /\ db[r] = "none"
            /\ pc[r] = "done"
            /\ RowsOf(r) = {}

C2_Witness ==
    \E r \in ReqIds :
        /\ IsPostRoot(reqs[r])
        /\ Len(Violated(reqs[r].body)) = 1
        /\ Len(responses[r]) = 1 /\ responses[r][1].status = 400
        /\ store = <<>>

-----------------------------------------------------------------------------
(* C3 *)

\* C3: a POST / violating rules on more than one field gets exactly one
\* response, 400, whose body is one message per violated field, in the order
\* nome, email, telefone, separated by "; ".
C3_MessagesJoinedInSchemaOrder ==
    \A r \in ReqIds :
        LET v == Violated(reqs[r].body)
        IN  (IsPostRoot(reqs[r]) /\ Len(v) >= 2) =>
                /\ Len(responses[r]) = 1
                /\ responses[r][1].status = 400
                /\ responses[r][1].kind = "send"
                /\ LET b == responses[r][1].body
                   IN  /\ Len(b) = 2 * Len(v) - 1
                       /\ \A j \in 1..Len(v) : b[2 * j - 1] \in FieldMessages(v[j])
                       /\ \A j \in 1..(Len(v) - 1) : b[2 * j] = "; "

C3_Witness ==
    \E r \in ReqIds :
        /\ IsPostRoot(reqs[r])
        /\ Violated(reqs[r].body) = <<"nome", "telefone">>
        /\ Len(responses[r]) = 1
        /\ Len(responses[r][1].body) = 3

-----------------------------------------------------------------------------
(* C4 *)

\* C4 as stated: whenever telefone does not match the pattern, a missing or
\* non-text telefone included, the response is 400 and its body includes
\* "Deve enviar um telefone válido".
C4_Original ==
    \A r \in ReqIds :
        (IsPostRoot(reqs[r]) /\ ~TelefoneValid(reqs[r].body.telefone)) =>
            /\ Len(responses[r]) = 1
            /\ responses[r][1].status = 400
            /\ Includes(responses[r][1], "Deve enviar um telefone válido")

\* C4 as amended: a telefone that is text and does not match the pattern is
\* answered 400 with "Deve enviar um telefone válido" in the body; a telefone
\* that is missing or not text is answered 400 too, with the validator's own
\* wrong-type message in place of the phone-format message.
C4_PhoneMessageForTextOnly ==
    \A r \in ReqIds :
        LET t == reqs[r].body.telefone
        IN  (IsPostRoot(reqs[r]) /\ ~TelefoneValid(t)) =>
                /\ Len(responses[r]) = 1
                /\ responses[r][1].status = 400
                /\ t.kind = "string" =>
                     Includes(responses[r][1], "Deve enviar um telefone válido")
                /\ t.kind # "string" =>
                     /\ ~Includes(responses[r][1], "Deve enviar um telefone válido")
                     /\ \/ Includes(responses[r][1], "Required")
                        \/ Includes(responses[r][1], "Expected string, received number")

C4_Witness ==
    \E r \in ReqIds :
        /\ IsPostRoot(reqs[r])
        /\ reqs[r].body.telefone.kind = "string"
        /\ Len(reqs[r].body.telefone.chars) = 16
        /\ NomeValid(reqs[r].body.nome) /\ EmailValid(reqs[r].body.email)
        /\ Len(responses[r]) = 1
        /\ IsText(responses[r][1], 400, "Deve enviar um telefone válido")

-----------------------------------------------------------------------------
(* C5 *)

-----------------------------------------------------------------------------
(* C6 *)

\* C6: the step in which a request's append settles, with or without an error,
\* changes no response, no handler's position, no persistence call and no row:
\* the client's response does not depend on the append, and an append error
\* reaches stderr only.
C6_AppendNeverTouchesTheRequest ==
    [][ (\E r \in ReqIds : appendq[r] = "pending" /\ appendq'[r] # "pending")
            => /\ responses' = responses
               /\ pc' = pc
               /\ db' = db
               /\ store' = store
               /\ alive' = alive ]_vars

C6_Witness ==
    \E r, q \in ReqIds :
        /\ appendq[r] = "failed" /\ Len(responses[r]) = 1
        /\ appendq[q] = "pending" /\ Len(responses[q]) = 1
        /\ [msg |-> "Erro ao escrever no arquivo de log:", req |-> r] \in stderr

-----------------------------------------------------------------------------
(* C7 *)

\* the rows are exactly the submissions persisted so far, one row each
StoreIsThePersistedSubmissions ==
    /\ \A i \in 1..Len(store) :
         /\ createdBy[i] \in ReqIds
         /\ IsPostRoot(reqs[createdBy[i]]) /\ db[createdBy[i]] = "ok"
         /\ store[i] = [nome |-> reqs[createdBy[i]].body.nome,
                        telefone |-> reqs[createdBy[i]].body.telefone,
                        email |-> reqs[createdBy[i]].body.email]
    /\ \A r \in ReqIds :
         (IsPostRoot(reqs[r]) /\ db[r] = "ok") => Cardinality(RowsOf(r)) = 1

\* C7: the store always holds exactly one row per persisted valid submission,
\* unaltered, duplicates as separate rows; and a GET /contatos whose query
\* succeeds answers once, 200, rendering "contatos" with the whole store of
\* that moment bound to contatos.
C7_ListingIsThePersistedSubmissions ==
    /\ [](StoreIsThePersistedSubmissions)
    /\ [][ \A r \in ReqIds :
             (IsGetContatos(reqs[r]) /\ db[r] = "pending" /\ db'[r] = "ok") =>
                 /\ Len(responses'[r]) = 1
                 /\ responses'[r][1].status = 200
                 /\ responses'[r][1].kind = "render"
                 /\ responses'[r][1].view = "contatos"
                 /\ responses'[r][1].contatos = store
                 /\ store' = store ]_vars

C7_Witness ==
    \E r \in ReqIds :
        /\ IsGetContatos(reqs[r]) /\ db[r] = "ok"
        /\ Len(responses[r]) = 1
        /\ Len(responses[r][1].contatos) = 2
        /\ responses[r][1].contatos[1] = responses[r][1].contatos[2]
        /\ responses[r][1].contatos = store

-----------------------------------------------------------------------------
(* C8 *)

\* C8: a GET /contatos whose query failed has exactly one response, 500 with
\* the text "Erro ao buscar contatos.", never a rendered page; its handler
\* ended normally, it inserted no row, and the failure does not stop the
\* process (only an unhandled rejection of another request can).
C8_ListingFailureAnswers500 ==
    \A r \in ReqIds :
        (IsGetContatos(reqs[r]) /\ db[r] = "failed") =>
            /\ Len(responses[r]) = 1
            /\ IsText(responses[r][1], 500, "Erro ao buscar contatos.")
            /\ pc[r] = "done"
            /\ RowsOf(r) = {}
            /\ alive \/ \E q \in ReqIds : q # r /\ pc[q] = "rejected"

C8_Witness ==
    \E r, q \in ReqIds :
        /\ r < q
        /\ IsGetContatos(reqs[r]) /\ db[r] = "failed"
        /\ IsText(responses[r][1], 500, "Erro ao buscar contatos.")
        /\ IsGetContatos(reqs[q]) /\ db[q] = "ok"
        /\ Len(responses[q][1].contatos) = 1
        /\ alive

-----------------------------------------------------------------------------
(* C9 *)

\* C9: every row of the store satisfies the three rules: nome is text of
\* length at least 3, email is a valid address, telefone matches the pattern.
C9_StoredContactsAreValid ==
    \A i \in 1..Len(store) :
        /\ NomeValid(store[i].nome)
        /\ EmailValid(store[i].email)
        /\ TelefoneValid(store[i].telefone)

C9_Witness == Len(store) >= 1 /\ Quiescent

-----------------------------------------------------------------------------
(* C10 *)

\* C10: a valid POST / whose create failed has no response from its handler,
\* neither the 200 nor a 400 or 500, the rejection left the handler
\* unhandled, and no row of the store comes from it.
C10_CreateFailureIsUnanswered ==
    \A r \in ReqIds :
        (IsPostRoot(reqs[r]) /\ BodyValid(reqs[r].body) /\ db[r] = "failed") =>
            /\ responses[r] = <<>>
            /\ pc[r] = "rejected"
            /\ RowsOf(r) = {}

C10_Witness ==
    \E r \in ReqIds :
        /\ IsPostRoot(reqs[r]) /\ BodyValid(reqs[r].body) /\ db[r] = "failed"
        /\ responses[r] = <<>>
        /\ appendq[r] = "ok"
        /\ store = <<>>
        /\ alive

=============================================================================
